---- MODULE Spec2Model ----
(***************************************************************************)
(* A model of the two scripts of the repository:                           *)
(*   boltzmann.py               the Maxwell-Boltzmann command line tool    *)
(*   animated_wave_addition.py  the animated sum of cosine waves           *)
(*                                                                         *)
(* Numbers.  Python floats are binary floating point numbers rounded to    *)
(* nearest, ties to even.  The model keeps that arithmetic and reduces the *)
(* width of the mantissa from 53 bits to Precision bits: a float is a      *)
(* record [m, e] of value m * 2^e with 2^(Precision-1) <= |m| < 2^Precision*)
(* (or m = 0, e = 0).  The exponent is unbounded: overflow to infinity and *)
(* underflow are outside the model.  The x axis of a distribution (the     *)
(* stepped speed or energy) is computed in this arithmetic.  A density     *)
(* value (the y axis) and a characteristic speed are followed by their     *)
(* sign only (-1, 0, 1), together with the exceptions that math.pow,       *)
(* math.sqrt and the division raise.                                       *)
(*                                                                         *)
(* Text.  A command line token is a sequence of one-character strings.     *)
(***************************************************************************)
EXTENDS Integers, Sequences, FiniteSets, TLC

\* ------------------------------------------------------------------ bounds
Precision == 5      \* mantissa bits of the modelled floating point numbers
MaxIter == 14       \* cap on the iterations of one distribution loop
MaxTemps == 2       \* longest list of temperatures on the command line
MaxFreqs == 3       \* longest frequency list of the wave script

\* ------------------------------------------------- floating point numbers
Abs(n) == IF n < 0 THEN -n ELSE n

Sgn(n) == IF n < 0 THEN -1 ELSE IF n = 0 THEN 0 ELSE 1

Min(a, b) == IF a <= b THEN a ELSE b

Pow2(n) == 2 ^ n

FZero == [m |-> 0, e |-> 0]

\* num/den * 2^e with num, den > 0, rescaled until
\* 2^(Precision-1) <= num/den < 2^Precision
RECURSIVE Norm(_, _, _)
Norm(num, den, e) ==
    IF num >= den * Pow2(Precision) THEN Norm(num, 2 * den, e + 1)
    ELSE IF num < den * Pow2(Precision - 1) THEN Norm(2 * num, den, e - 1)
    ELSE [num |-> num, den |-> den, e |-> e]

\* num/den (>= 0) rounded to the nearest integer, ties to even
RoundHalfEven(num, den) ==
    LET q == num \div den
        r == num % den
    IN  IF 2 * r > den \/ (2 * r = den /\ q % 2 = 1) THEN q + 1 ELSE q

\* The float nearest to (num/den) * 2^e, den > 0
Fl(num, den, e) ==
    IF num = 0 THEN FZero
    ELSE LET n == Norm(Abs(num), den, e)
             q == RoundHalfEven(n.num, n.den)
         IN  IF q = Pow2(Precision)
             THEN [m |-> Sgn(num) * Pow2(Precision - 1), e |-> n.e + 1]
             ELSE [m |-> Sgn(num) * q, e |-> n.e]

FromInt(n) == Fl(n, 1, 0)

\* a + b, rounded
FAdd(a, b) ==
    IF a.m = 0 THEN b
    ELSE IF b.m = 0 THEN a
    ELSE LET e == Min(a.e, b.e)
         IN  Fl(a.m * Pow2(a.e - e) + b.m * Pow2(b.e - e), 1, e)

\* a / b, rounded (b is not zero)
FDiv(a, b) == Fl(a.m * Sgn(b.m), Abs(b.m), a.e - b.e)

\* a < b
FLess(a, b) ==
    IF a.m = 0 THEN b.m > 0
    ELSE IF b.m = 0 THEN a.m < 0
    ELSE LET e == Min(a.e, b.e)
         IN  a.m * Pow2(a.e - e) < b.m * Pow2(b.e - e)

FSgn(a) == Sgn(a.m)

\* ---------------------------------------------------------------- tokens
Digits == {"0", "1", "2", "3", "4", "5", "6", "7", "8", "9"}

DigitVal(c) ==
    CASE c = "0" -> 0 [] c = "1" -> 1 [] c = "2" -> 2 [] c = "3" -> 3
      [] c = "4" -> 4 [] c = "5" -> 5 [] c = "6" -> 6 [] c = "7" -> 7
      [] c = "8" -> 8 [] c = "9" -> 9

AllDigits(s) == \A i \in 1..Len(s) : s[i] \in Digits

RECURSIVE DigitsValue(_)
DigitsValue(s) ==
    IF s = <<>> THEN 0
    ELSE 10 * DigitsValue(SubSeq(s, 1, Len(s) - 1)) + DigitVal(s[Len(s)])

RECURSIVE Pow10(_)
Pow10(n) == IF n = 0 THEN 1 ELSE 10 * Pow10(n - 1)

Unsigned(tok) ==
    IF Len(tok) > 0 /\ tok[1] \in {"-", "+"} THEN Tail(tok) ELSE tok

TokSign(tok) == IF Len(tok) > 0 /\ tok[1] = "-" THEN -1 ELSE 1

\* Python's float(str) on the tokens of the model's alphabet (sign, digits,
\* one decimal point, letters): [ok, val].  ok = FALSE is ValueError.
float(tok) ==
    LET body == Unsigned(tok)
        dots == {i \in 1..Len(body) : body[i] = "."}
        dot  == IF dots = {} THEN Len(body) + 1
                ELSE CHOOSE i \in dots : \A j \in dots : i <= j
        ip   == SubSeq(body, 1, dot - 1)
        fp   == SubSeq(body, dot + 1, Len(body))
        ok   == /\ AllDigits(ip)
                /\ AllDigits(fp)
                /\ Len(ip) + Len(fp) > 0
    IN  IF ok
        THEN [ok |-> TRUE,
              val |-> Fl(TokSign(tok) * (DigitsValue(ip) * Pow10(Len(fp)) + DigitsValue(fp)),
                         Pow10(Len(fp)), 0)]
        ELSE [ok |-> FALSE, val |-> FZero]

\* Python's int(str): [ok, val].  ok = FALSE is ValueError.
int(tok) ==
    LET body == Unsigned(tok)
    IN  IF Len(body) > 0 /\ AllDigits(body)
        THEN [ok |-> TRUE, val |-> TokSign(tok) * DigitsValue(body)]
        ELSE [ok |-> FALSE, val |-> 0]


\* ------------------------------------------------------------ boltzmann.py
\* Molecular masses [Kg/mol]
M_HYDROGEN == FDiv(Fl(100794, 100000, 0), FromInt(1000))

M_OXYGEN == FDiv(Fl(15999, 1000, 0), FromInt(1000))

M_AIR == FDiv(Fl(2897, 100, 0), FromInt(1000))

M_WATER == FDiv(Fl(1801528, 100000, 0), FromInt(1000))

T_hyd == <<"h", "y", "d">>

T_oxy == <<"o", "x", "y">>

T_air == <<"a", "i", "r">>

T_wat == <<"w", "a", "t">>

\* c2k without the conversion
c2k_none(t) == t

\* Celsius to Kelvin
c2k(t) == FAdd(t, Fl(27315, 100, 0))

\* The dictionary of mass_and_title
d ==
    (T_hyd :> [mass |-> M_HYDROGEN, title |-> "Hidrogeno"]) @@
    (T_oxy :> [mass |-> M_OXYGEN, title |-> "Oxigeno"]) @@
    (T_air :> [mass |-> M_AIR, title |-> "Aire"]) @@
    (T_wat :> [mass |-> M_WATER, title |-> "Agua"])

\* mass_and_title without the default of the empty token
mass_and_title_no_default(mass) ==
    IF mass \in DOMAIN d
    THEN [ok |-> TRUE, mass |-> d[mass].mass, title |-> d[mass].title]
    ELSE LET f == float(mass)
         IN  IF f.ok
             THEN [ok |-> TRUE, mass |-> f.val, title |-> ""]
             ELSE [ok |-> FALSE, mass |-> FZero, title |-> ""]

\* mass_and_title that answers (0, '') where the conversion fails
mass_and_title_zero_fallback(mass) ==
    LET key == IF mass = <<>> THEN T_wat ELSE mass
    IN  IF key \in DOMAIN d
        THEN [ok |-> TRUE, mass |-> d[key].mass, title |-> d[key].title]
        ELSE [ok |-> TRUE, mass |-> float(key).val, title |-> ""]

\* mass_and_title(mass): [ok, mass, title]; ok = FALSE is the
\* ValueError 'Cannot convert mass "..." to float'
mass_and_title(mass) ==
    LET key == IF mass = <<>> THEN T_wat ELSE mass
    IN  IF key \in DOMAIN d
        THEN [ok |-> TRUE, mass |-> d[key].mass, title |-> d[key].title]
        ELSE LET f == float(key)
             IN  IF f.ok
                 THEN [ok |-> TRUE, mass |-> f.val, title |-> ""]
                 ELSE [ok |-> FALSE, mass |-> FZero, title |-> ""]

\* A printed line: its text and the sign of the number printed after it
Line(text, sign) == [text |-> text, sign |-> sign]

\* velocity_report(mass, temperature): the exception raised ("" for none)
\* and the lines printed.  factor is the sign of R * temperature / mass.
velocity_report(mass, temperature) ==
    IF mass.m = 0
    THEN [exc |-> "ZeroDivisionError", out |-> <<>>]
    ELSE LET factor == FSgn(temperature) * FSgn(mass)
         IN  IF factor < 0
             THEN [exc |-> "ValueError", out |-> <<>>]
             ELSE [exc |-> "",
                   out |-> << Line("Most probable speed", factor),
                              Line("Average speed", factor),
                              Line("RMS speed", factor) >>]

\* boltzmann_speed, line 87: k = 4 * PI * pow(mass / (2 * PI * R * temperature), 1.5)
\* [exc, k]: the exception raised, or the sign of k
speed_k(mass, temperature) ==
    IF temperature.m = 0
    THEN [exc |-> "ZeroDivisionError", k |-> 0]
    ELSE IF FSgn(mass) * FSgn(temperature) < 0
    THEN [exc |-> "ValueError", k |-> 0]
    ELSE [exc |-> "", k |-> FSgn(mass) * FSgn(temperature)]

\* boltzmann_energy, line 115: k = 2 * PI * pow(PI * R * temperature, -1.5)
energy_k(temperature) ==
    IF FSgn(temperature) <= 0
    THEN [exc |-> "ValueError", k |-> 0]
    ELSE [exc |-> "", k |-> 1]

\* line 90: delta_speed = float(max_speed) / steps
delta_speed_of(max_speed, steps) ==
    IF steps = 0
    THEN [exc |-> "ZeroDivisionError", delta |-> FZero]
    ELSE [exc |-> "", delta |-> FDiv(max_speed, FromInt(steps))]

\* line 118: delta_energy = float(max_energy) / steps
delta_energy_of(max_energy, steps) ==
    IF steps = 0
    THEN [exc |-> "ZeroDivisionError", delta |-> FZero]
    ELSE [exc |-> "", delta |-> FDiv(max_energy, FromInt(steps))]

\* lines 93-96: the sign of k * v2 * exp(ex) * 100 (exp is positive)
speed_density(kk, sp) == kk * (FSgn(sp) * FSgn(sp)) * 1 * 1

\* line 121: the sign of k * sqrt(energy) * exp(..) * delta_energy * 100,
\* for energy >= 0 (sqrt raises ValueError below 0)
energy_density(kk, en, de) == kk * FSgn(en) * 1 * FSgn(de) * 1

\* line 97: speed += delta_speed
advance_speed(sp, delta) == FAdd(sp, delta)

\* the energy advanced twice in one iteration
advance_energy_twice(en, delta) == FAdd(FAdd(en, delta), delta)

\* line 122: energy += delta_energy
advance_energy(en, delta) == FAdd(en, delta)

\* temperatures converted up to the first that fails, accepted if the first converts
temperature_floats_lazy(tokens) ==
    LET good == {i \in 1..Len(tokens) : \A j \in 1..i : float(tokens[j]).ok}
    IN  IF good # {}
        THEN [ok |-> TRUE, list |-> [i \in good |-> float(tokens[i]).val]]
        ELSE [ok |-> FALSE, list |-> <<>>]

\* line 311: [float(t) for t in args.temperatures]: [ok, list]
temperature_floats(tokens) ==
    IF \A i \in 1..Len(tokens) : float(tokens[i]).ok
    THEN [ok |-> TRUE, list |-> [i \in 1..Len(tokens) |-> float(tokens[i]).val]]
    ELSE [ok |-> FALSE, list |-> <<>>]

VARIABLES
    args,              \* the command line: tokens per option
    pc,                \* position in the script
    exc,               \* the uncaught exception that ended the run ("" for none)
    stdout,            \* the lines printed
    maximum_speed, maximum_energy, num_steps,
    molecular_mass, default_title, plot_title, temperature_list,
    idx,               \* position of the plot loop in the temperature list
    call,              \* arguments of the running boltzmann_speed/_energy call
    k, x, y,           \* locals of the running call
    speed, delta_speed, energy, delta_energy,
    curves,            \* the curves handed to plt.plot, in order
    shown              \* whether plt.show() was reached

bvars == << args, pc, exc, stdout, maximum_speed, maximum_energy, num_steps,
            molecular_mass, default_title, plot_title, temperature_list,
            idx, call, k, x, y, speed, delta_speed, energy, delta_energy,
            curves, shown >>

\* animated_wave_addition.py
VARIABLES
    entry,             \* the function called: "plot_waves" or "calculate_sum_wave"
    wargs,             \* the arguments of plot_waves
    wpc,               \* position in the script
    x_grid,            \* plot_waves' x
    frequency_list, n, frequency_slice,
    sum_wave,          \* plot_waves' sum_wave: the wave of the last frame
    cx, cfl,           \* calculate_sum_wave's arguments x and frequency_list
    acc, fi,           \* calculate_sum_wave's sum_wave and its place in the for loop
    ret,               \* the value calculate_sum_wave returned
    frames             \* the frames drawn, in order

wvars == << entry, wargs, wpc, x_grid, frequency_list, n, frequency_slice,
            sum_wave, cx, cfl, acc, fi, ret, frames >>

vars == << bvars, wvars >>

NoCall == [fn |-> "", mass |-> FZero, temperature |-> FZero,
           maximum |-> FZero, steps |-> 0]

\* The tokens the model draws the command line from
MaxSpeedTokens == { <<"1">>, <<"3">>, <<"x">> }

MaxEnergyTokens == { <<"2">>, <<"0">>, <<"y">> }

NumStepsTokens == { <<"3">>, <<"6">>, <<"1", "0">>, <<"0">>,
                    <<"-", "2">>, <<"2", ".", "5">> }

MassTokens == { <<>>, T_hyd, T_oxy, T_air, T_wat, <<"5", ".", "0">>,
                <<"b", "o", "g", "u", "s">>, <<"-", "2">>, <<"0">> }

TempTokens == { <<"2", "0">>, <<"1", "0", "0">>, <<"-", "3", "0", "0">>,
                <<"-", "2", "7", "3", ".", "1", "5">>, <<"a", "b", "c">> }

TempLists == UNION { [1..len -> TempTokens] : len \in 1..MaxTemps }

\* get_args: the parsed command line (nargs='+': at least one temperature)
get_args ==
    [temperatures : TempLists, energy : BOOLEAN,
     maxenergy : MaxEnergyTokens, maxspeed : MaxSpeedTokens,
     numsteps : NumStepsTokens, mass : MassTokens, title : {""}]

BoltzmannInit ==
    /\ args \in get_args
    /\ pc = "convert_max"
    /\ exc = ""
    /\ stdout = <<>>
    /\ maximum_speed = FZero
    /\ maximum_energy = FZero
    /\ num_steps = 0
    /\ molecular_mass = FZero
    /\ default_title = ""
    /\ plot_title = ""
    /\ temperature_list = <<>>
    /\ idx = 0
    /\ call = NoCall
    /\ k = 0
    /\ x = <<>>
    /\ y = <<>>
    /\ speed = FZero
    /\ delta_speed = FZero
    /\ energy = FZero
    /\ delta_energy = FZero
    /\ curves = <<>>
    /\ shown = FALSE

\* The state of a script that is not running
BoltzmannIdle ==
    /\ args = [temperatures |-> <<>>, energy |-> FALSE, maxenergy |-> <<>>,
               maxspeed |-> <<>>, numsteps |-> <<>>, mass |-> <<>>, title |-> ""]
    /\ pc = "idle"
    /\ exc = ""
    /\ stdout = <<>>
    /\ maximum_speed = FZero
    /\ maximum_energy = FZero
    /\ num_steps = 0
    /\ molecular_mass = FZero
    /\ default_title = ""
    /\ plot_title = ""
    /\ temperature_list = <<>>
    /\ idx = 0
    /\ call = NoCall
    /\ k = 0
    /\ x = <<>>
    /\ y = <<>>
    /\ speed = FZero
    /\ delta_speed = FZero
    /\ energy = FZero
    /\ delta_energy = FZero
    /\ curves = <<>>
    /\ shown = FALSE

locals == << call, k, x, y, speed, delta_speed, energy, delta_energy >>

parsed == << maximum_speed, maximum_energy, num_steps, molecular_mass,
             default_title, plot_title, temperature_list >>

\* lines 287-292
convert_max ==
    /\ pc = "convert_max"
    /\ LET s == float(args.maxspeed)
           e == float(args.maxenergy)
       IN  /\ maximum_speed' = IF s.ok THEN s.val ELSE maximum_speed
           /\ maximum_energy' = IF s.ok /\ e.ok THEN e.val ELSE maximum_energy
           /\ IF s.ok /\ e.ok
              THEN pc' = "convert_steps" /\ stdout' = stdout
              ELSE /\ pc' = "exit"
                   /\ stdout' = Append(stdout,
                        Line("Cannot convert the max energy and/or max speed to float", 0))
    /\ UNCHANGED << args, exc, num_steps, molecular_mass, default_title, plot_title,
                    temperature_list, idx, locals, curves, shown >>
    /\ UNCHANGED wvars

\* line 295: int() is not inside a try
convert_steps ==
    /\ pc = "convert_steps"
    /\ LET r == int(args.numsteps)
       IN  IF r.ok
           THEN num_steps' = r.val /\ pc' = "mass" /\ exc' = exc
           ELSE num_steps' = num_steps /\ pc' = "crashed" /\ exc' = "ValueError"
    /\ UNCHANGED << args, stdout, maximum_speed, maximum_energy, molecular_mass,
                    default_title, plot_title, temperature_list, idx, locals,
                    curves, shown >>
    /\ UNCHANGED wvars

\* lines 298-302
get_mass ==
    /\ pc = "mass"
    /\ LET r == mass_and_title(args.mass)
       IN  IF r.ok
           THEN /\ molecular_mass' = r.mass
                /\ default_title' = r.title
                /\ pc' = "title"
                /\ stdout' = stdout
           ELSE /\ UNCHANGED << molecular_mass, default_title >>
                /\ pc' = "exit"
                /\ stdout' = Append(stdout, Line("Cannot convert mass to float", 0))
    /\ UNCHANGED << args, exc, maximum_speed, maximum_energy, num_steps, plot_title,
                    temperature_list, idx, locals, curves, shown >>
    /\ UNCHANGED wvars

\* lines 305-307
set_title ==
    /\ pc = "title"
    /\ plot_title' = IF args.title = "" /\ default_title # ""
                     THEN default_title ELSE args.title
    /\ pc' = "temperatures"
    /\ UNCHANGED << args, exc, stdout, maximum_speed, maximum_energy, num_steps,
                    molecular_mass, default_title, temperature_list, idx, locals,
                    curves, shown >>
    /\ UNCHANGED wvars

\* lines 310-314
convert_temperatures ==
    /\ pc = "temperatures"
    /\ LET r == temperature_floats(args.temperatures)
       IN  IF r.ok
           THEN temperature_list' = r.list /\ pc' = "report" /\ stdout' = stdout
           ELSE /\ temperature_list' = temperature_list
                /\ pc' = "exit"
                /\ stdout' = Append(stdout, Line("Cannot convert temperature(s) to float", 0))
    /\ UNCHANGED << args, exc, maximum_speed, maximum_energy, num_steps,
                    molecular_mass, default_title, plot_title, idx, locals,
                    curves, shown >>
    /\ UNCHANGED wvars

\* lines 316-321: the report, then the choice of the plot
report ==
    /\ pc = "report"
    /\ LET r == velocity_report(molecular_mass, c2k(temperature_list[1]))
       IN  /\ stdout' = stdout \o r.out
           /\ exc' = r.exc
           /\ pc' = IF r.exc # "" THEN "crashed"
                    ELSE IF args.energy THEN "plot_energies" ELSE "plot_speeds"
    /\ idx' = 1
    /\ UNCHANGED << args, parsed, locals, curves, shown >>
    /\ UNCHANGED wvars

\* lines 166-167 and 85-90: the call for the next temperature, up to the loop
boltzmann_speed_enter ==
    /\ pc = "plot_speeds"
    /\ idx <= Len(temperature_list)
    /\ LET t  == c2k(temperature_list[idx])
           kk == speed_k(molecular_mass, t)
           dl == delta_speed_of(maximum_speed, num_steps)
       IN  /\ call' = [fn |-> "boltzmann_speed", mass |-> molecular_mass,
                       temperature |-> t, maximum |-> maximum_speed,
                       steps |-> num_steps]
           /\ x' = <<>>
           /\ y' = <<>>
           /\ k' = kk.k
           /\ speed' = FZero
           /\ delta_speed' = dl.delta
           /\ exc' = IF kk.exc # "" THEN kk.exc ELSE dl.exc
           /\ pc' = IF kk.exc # "" \/ dl.exc # "" THEN "crashed" ELSE "speed_loop"
    /\ UNCHANGED << args, stdout, parsed, idx, energy, delta_energy, curves, shown >>
    /\ UNCHANGED wvars

\* lines 91-97: one iteration
boltzmann_speed_step ==
    /\ pc = "speed_loop"
    /\ FLess(speed, call.maximum)
    /\ Len(x) < MaxIter
    /\ x' = Append(x, speed)
    /\ y' = Append(y, speed_density(k, speed))
    /\ speed' = advance_speed(speed, delta_speed)
    /\ UNCHANGED << args, pc, exc, stdout, parsed, idx, call, k, delta_speed,
                    energy, delta_energy, curves, shown >>
    /\ UNCHANGED wvars

\* lines 98 and 168-173: the curve is returned and plotted
plot_speeds ==
    /\ pc = "speed_loop"
    /\ ~FLess(speed, call.maximum)
    /\ curves' = Append(curves, [x |-> x, y |-> y, label |-> temperature_list[idx],
                                 call |-> call])
    /\ idx' = idx + 1
    /\ pc' = "plot_speeds"
    /\ UNCHANGED << args, exc, stdout, parsed, locals, shown >>
    /\ UNCHANGED wvars

\* lines 191-192 and 113-118
boltzmann_energy_enter ==
    /\ pc = "plot_energies"
    /\ idx <= Len(temperature_list)
    /\ LET t  == c2k(temperature_list[idx])
           kk == energy_k(t)
           dl == delta_energy_of(maximum_energy, num_steps)
       IN  /\ call' = [fn |-> "boltzmann_energy", mass |-> FZero,
                       temperature |-> t, maximum |-> maximum_energy,
                       steps |-> num_steps]
           /\ x' = <<>>
           /\ y' = <<>>
           /\ k' = kk.k
           /\ energy' = FZero
           /\ delta_energy' = dl.delta
           /\ exc' = IF kk.exc # "" THEN kk.exc ELSE dl.exc
           /\ pc' = IF kk.exc # "" \/ dl.exc # "" THEN "crashed" ELSE "energy_loop"
    /\ UNCHANGED << args, stdout, parsed, idx, speed, delta_speed, curves, shown >>
    /\ UNCHANGED wvars

\* lines 119-122: one iteration; math.sqrt raises below 0, after x.append
boltzmann_energy_step ==
    /\ pc = "energy_loop"
    /\ FLess(energy, call.maximum)
    /\ Len(x) < MaxIter
    /\ x' = Append(x, energy)
    /\ IF FSgn(energy) < 0
       THEN /\ exc' = "ValueError"
            /\ pc' = "crashed"
            /\ UNCHANGED << y, energy >>
       ELSE /\ y' = Append(y, energy_density(k, energy, delta_energy))
            /\ energy' = advance_energy(energy, delta_energy)
            /\ UNCHANGED << pc, exc >>
    /\ UNCHANGED << args, stdout, parsed, idx, call, k, delta_energy,
                    speed, delta_speed, curves, shown >>
    /\ UNCHANGED wvars

\* lines 123 and 193-198
plot_energies ==
    /\ pc = "energy_loop"
    /\ ~FLess(energy, call.maximum)
    /\ curves' = Append(curves, [x |-> x, y |-> y, label |-> temperature_list[idx],
                                 call |-> call])
    /\ idx' = idx + 1
    /\ pc' = "plot_energies"
    /\ UNCHANGED << args, exc, stdout, parsed, locals, shown >>
    /\ UNCHANGED wvars

\* line 174: plt.show() after the last temperature
plot_speeds_show ==
    /\ pc = "plot_speeds"
    /\ idx > Len(temperature_list)
    /\ shown' = TRUE
    /\ pc' = "done"
    /\ UNCHANGED << args, exc, stdout, parsed, idx, locals, curves >>
    /\ UNCHANGED wvars

\* line 199: plt.show() after the last temperature
plot_energies_show ==
    /\ pc = "plot_energies"
    /\ idx > Len(temperature_list)
    /\ shown' = TRUE
    /\ pc' = "done"
    /\ UNCHANGED << args, exc, stdout, parsed, idx, locals, curves >>
    /\ UNCHANGED wvars

BoltzmannNext ==
    \/ convert_max
    \/ convert_steps
    \/ get_mass
    \/ set_title
    \/ convert_temperatures
    \/ report
    \/ boltzmann_speed_enter
    \/ boltzmann_speed_step
    \/ plot_speeds
    \/ plot_speeds_show
    \/ boltzmann_energy_enter
    \/ boltzmann_energy_step
    \/ plot_energies
    \/ plot_energies_show

\* ------------------------------------------------- animated_wave_addition.py
\* Numbers of this script are exact: an x value is a number of thirds, a
\* frequency is an integer, an amplitude is a number of halves.  These are
\* the points where cos(pi * f * x) is rational.

\* np.linspace(start, stop, num) where the spacing is exact
linspace(start, stop, num) ==
    [i \in 1..num |-> IF num = 1 THEN start
                      ELSE start + ((i - 1) * (stop - start)) \div (num - 1)]

Exact(start, stop, num) == num <= 1 \/ (stop - start) % (num - 1) = 0

\* 2 * cos(pi * a / 3)
Cos2(a) ==
    CASE a % 6 = 0 -> 2
      [] a % 6 \in {1, 5} -> 1
      [] a % 6 \in {2, 4} -> -1
      [] a % 6 = 3 -> -2

\* np.zeros(size)
np_zeros(size) == [i \in 1..size |-> 0]

\* line 42: y = np.cos(np.pi * f * x), elementwise
np_cos_pi(f, xs) == [i \in 1..Len(xs) |-> Cos2(f * xs[i])]

\* the wave assigned instead of added
np_add_overwrite(a, b) == b

\* line 43: np.add(a, b), elementwise, for arrays of one size
np_add(a, b) == [i \in 1..Len(a) |-> a[i] + b[i]]

XGrids == { linspace(a[1], a[2], a[3]) : a \in {<<-3, 3, 3>>, <<0, 2, 2>>, <<1, 1, 1>>, <<0, 0, 0>>} }

FreqLists == UNION { [1..m -> 1..3] : m \in 0..MaxFreqs }

WaveArgs ==
    { a \in [x_min : {-3, 0}, x_max : {3, 6}, x_samples : 0..4,
             f_min : {1, 2}, f_max : {3, 4}, f_samples : 0..MaxFreqs] :
        /\ Exact(a.x_min, a.x_max, a.x_samples)
        /\ Exact(a.f_min, a.f_max, a.f_samples) }

NoArgs == [x_min |-> 0, x_max |-> 0, x_samples |-> 0,
           f_min |-> 0, f_max |-> 0, f_samples |-> 0]

WaveInit ==
    /\ entry \in {"plot_waves", "calculate_sum_wave"}
    /\ IF entry = "plot_waves"
       THEN /\ wargs \in WaveArgs
            /\ wpc = "plot_waves"
            /\ cx = <<>>
            /\ cfl = <<>>
       ELSE /\ wargs = NoArgs
            /\ wpc = "call"
            /\ cx \in XGrids
            /\ cfl \in FreqLists
    /\ x_grid = <<>>
    /\ frequency_list = <<>>
    /\ n = 0
    /\ frequency_slice = <<>>
    /\ sum_wave = <<>>
    /\ acc = <<>>
    /\ fi = 0
    /\ ret = <<>>
    /\ frames = <<>>

WaveIdle ==
    /\ entry = ""
    /\ wargs = NoArgs
    /\ wpc = "idle"
    /\ cx = <<>>
    /\ cfl = <<>>
    /\ x_grid = <<>>
    /\ frequency_list = <<>>
    /\ n = 0
    /\ frequency_slice = <<>>
    /\ sum_wave = <<>>
    /\ acc = <<>>
    /\ fi = 0
    /\ ret = <<>>
    /\ frames = <<>>

\* lines 68-70
plot_waves_enter ==
    /\ wpc = "plot_waves"
    /\ x_grid' = linspace(wargs.x_min, wargs.x_max, wargs.x_samples)
    /\ frequency_list' = linspace(wargs.f_min, wargs.f_max, wargs.f_samples)
    /\ n' = 0
    /\ wpc' = "frame_loop"
    /\ UNCHANGED << entry, wargs, frequency_slice, sum_wave, cx, cfl, acc, fi,
                    ret, frames >>
    /\ UNCHANGED bvars

\* line 74: frequency_list[0:n + 1]
slice_of(fl, i) == SubSeq(fl, 1, i + 1)

\* lines 73-76: the slice of the next frame and the call
frame_next ==
    /\ wpc = "frame_loop"
    /\ n < Len(frequency_list)
    /\ frequency_slice' = slice_of(frequency_list, n)
    /\ cx' = x_grid
    /\ cfl' = slice_of(frequency_list, n)
    /\ wpc' = "call"
    /\ UNCHANGED << entry, wargs, x_grid, frequency_list, n, sum_wave, acc, fi,
                    ret, frames >>
    /\ UNCHANGED bvars

\* the accumulator starting from the wave of the previous frame
calculate_sum_wave_enter_incremental ==
    /\ wpc = "call"
    /\ acc' = IF sum_wave = <<>> THEN np_zeros(Len(cx)) ELSE sum_wave
    /\ fi' = 1
    /\ wpc' = "for_f"
    /\ UNCHANGED << entry, wargs, x_grid, frequency_list, n, frequency_slice,
                    sum_wave, cx, cfl, ret, frames >>
    /\ UNCHANGED bvars

\* line 40
calculate_sum_wave_enter ==
    /\ wpc = "call"
    /\ acc' = np_zeros(Len(cx))
    /\ fi' = 1
    /\ wpc' = "for_f"
    /\ UNCHANGED << entry, wargs, x_grid, frequency_list, n, frequency_slice,
                    sum_wave, cx, cfl, ret, frames >>
    /\ UNCHANGED bvars

\* lines 41-43: one frequency
calculate_sum_wave_add ==
    /\ wpc = "for_f"
    /\ fi <= Len(cfl)
    /\ acc' = np_add(acc, np_cos_pi(cfl[fi], cx))
    /\ fi' = fi + 1
    /\ UNCHANGED << entry, wargs, wpc, x_grid, frequency_list, n, frequency_slice,
                    sum_wave, cx, cfl, ret, frames >>
    /\ UNCHANGED bvars

\* line 44
calculate_sum_wave_return ==
    /\ wpc = "for_f"
    /\ fi > Len(cfl)
    /\ ret' = acc
    /\ wpc' = IF entry = "plot_waves" THEN "frame_plot" ELSE "returned"
    /\ UNCHANGED << entry, wargs, x_grid, frequency_list, n, frequency_slice,
                    sum_wave, cx, cfl, acc, fi, frames >>
    /\ UNCHANGED bvars

\* lines 76-83: the frame is drawn
frame_plot ==
    /\ wpc = "frame_plot"
    /\ sum_wave' = ret
    /\ frames' = Append(frames, [title |-> Len(frequency_slice), x |-> x_grid,
                                 y |-> ret])
    /\ n' = n + 1
    /\ wpc' = "frame_loop"
    /\ UNCHANGED << entry, wargs, x_grid, frequency_list, frequency_slice,
                    cx, cfl, acc, fi, ret >>
    /\ UNCHANGED bvars

\* line 84
waves_show ==
    /\ wpc = "frame_loop"
    /\ n >= Len(frequency_list)
    /\ wpc' = "done"
    /\ UNCHANGED << entry, wargs, x_grid, frequency_list, n, frequency_slice,
                    sum_wave, cx, cfl, acc, fi, ret, frames >>
    /\ UNCHANGED bvars

WaveNext ==
    \/ plot_waves_enter
    \/ frame_next
    \/ calculate_sum_wave_enter
    \/ calculate_sum_wave_add
    \/ calculate_sum_wave_return
    \/ frame_plot
    \/ waves_show

InitBoltzmann == BoltzmannInit /\ WaveIdle

InitWaves == WaveInit /\ BoltzmannIdle

SpecBoltzmann == InitBoltzmann /\ [][BoltzmannNext]_vars

SpecWaves == InitWaves /\ [][WaveNext]_vars


\* ------------------------------------------------------------------ claims
ReportPrinted == \E i \in 1..Len(stdout) : stdout[i].text = "Most probable speed"

LastLine == IF stdout = <<>> THEN "" ELSE stdout[Len(stdout)].text

\* The parameters of a call are all positive
PositiveCall(c) ==
    /\ c.steps > 0
    /\ FSgn(c.temperature) > 0
    /\ (c.fn = "boltzmann_speed" => FSgn(c.mass) > 0)

\* C1: a non-positive temperature (Kelvin), molecular mass or step count is
\* rejected before any distribution point is computed and before any
\* characteristic speed is reported: a speed is reported, and a point is
\* computed, only for positive parameters.
C1_NonPositiveRejected ==
    /\ ReportPrinted =>
          FSgn(molecular_mass) > 0 /\ FSgn(c2k(temperature_list[1])) > 0
    /\ Len(x) > 0 => PositiveCall(call)
    /\ \A i \in 1..Len(curves) : PositiveCall(curves[i].call)

\* C2: the step-until-maximum loop ends after a number of iterations bounded
\* in proportion to steps (here: at most twice the step count, plus one), for
\* every maximum and step count that reaches the loop.
C2_IterationsBounded ==
    pc \in {"speed_loop", "energy_loop"} => Len(x) <= 2 * Abs(call.steps) + 1

Names == {T_hyd, T_oxy, T_air, T_wat}

\* C3: mass_and_title resolves each short name to its fixed mass and title,
\* the empty token to the result of 'wat', and any other token that parses
\* as a number to (that number, '').
C3_MassResolved ==
    /\ pc = "title" =>
          /\ args.mass = T_hyd =>
                molecular_mass = FDiv(Fl(100794, 100000, 0), FromInt(1000))
                /\ default_title = "Hidrogeno"
          /\ args.mass = T_oxy =>
                molecular_mass = FDiv(Fl(15999, 1000, 0), FromInt(1000))
                /\ default_title = "Oxigeno"
          /\ args.mass = T_air =>
                molecular_mass = FDiv(Fl(2897, 100, 0), FromInt(1000))
                /\ default_title = "Aire"
          /\ args.mass \in {T_wat, <<>>} =>
                molecular_mass = FDiv(Fl(1801528, 100000, 0), FromInt(1000))
                /\ default_title = "Agua"
          /\ args.mass = <<"5", ".", "0">> =>
                molecular_mass = FromInt(5) /\ default_title = ""
          /\ args.mass \notin Names \cup {<<>>} =>
                /\ float(args.mass).ok
                /\ molecular_mass = float(args.mass).val
                /\ default_title = ""
    /\ (args.mass \in Names \cup {<<>>} \/ float(args.mass).ok) =>
          LastLine # "Cannot convert mass to float"

C3_Witness ==
    /\ pc = "title"
    /\ args.mass = <<"5", ".", "0">>
    /\ molecular_mass = FromInt(5)

\* C4: a mass token that is neither a name, nor empty, nor a number yields no
\* (mass, title) pair: mass_and_title fails with its conversion error.
C4_BadMassFails ==
    (args.mass \notin Names \cup {<<>>} /\ ~float(args.mass).ok) =>
        /\ pc \in {"convert_max", "convert_steps", "mass", "exit", "crashed"}
        /\ molecular_mass = FZero
        /\ default_title = ""
        /\ (pc = "exit" /\ float(args.maxspeed).ok /\ float(args.maxenergy).ok) =>
               stdout = << Line("Cannot convert mass to float", 0) >>

C4_Witness ==
    /\ pc = "exit"
    /\ args.mass = <<"b", "o", "g", "u", "s">>
    /\ LastLine = "Cannot convert mass to float"

\* Some supplied value does not pass the script's conversions
ParseFailure ==
    \/ ~float(args.maxspeed).ok
    \/ ~float(args.maxenergy).ok
    \/ ~int(args.numsteps).ok
    \/ (args.mass \notin Names \cup {<<>>} /\ ~float(args.mass).ok)
    \/ \E i \in 1..Len(args.temperatures) : ~float(args.temperatures[i]).ok

\* C5: if any supplied value fails conversion (max speed, max energy, step
\* count, mass, any temperature at any position), the error is reported and
\* the run ends before the report and before any curve is computed or plotted.
C5_AllOrNothing ==
    ParseFailure =>
        /\ ~ReportPrinted
        /\ curves = <<>>
        /\ x = <<>>
        /\ ~shown
        /\ pc \in {"convert_max", "convert_steps", "mass", "title",
                   "temperatures", "exit", "crashed"}
        /\ pc = "exit" => Len(stdout) = 1
        /\ pc = "crashed" => exc = "ValueError"

C5_Witness ==
    /\ pc = "exit"
    /\ Len(args.temperatures) = 2
    /\ float(args.temperatures[1]).ok
    /\ ~float(args.temperatures[2]).ok
    /\ LastLine = "Cannot convert temperature(s) to float"

\* ceil of a float, as an integer
FCeil(a) ==
    IF a.e >= 0 THEN a.m * Pow2(a.e)
    ELSE LET p == Pow2(-a.e)
         IN  IF a.m % p = 0 THEN a.m \div p ELSE (a.m \div p) + 1

\* a - b = c as real numbers
ExactDiff(a, b, c) ==
    LET e == Min(Min(a.e, b.e), c.e)
    IN  a.m * Pow2(a.e - e) - b.m * Pow2(b.e - e) = c.m * Pow2(c.e - e)

\* a = b * n as real numbers
ExactMultiple(a, b, cnt) ==
    LET e == Min(a.e, b.e)
    IN  a.m * Pow2(a.e - e) = cnt * b.m * Pow2(b.e - e)

DeltaOf(c) == FDiv(c.maximum, FromInt(c.steps))

\* C6: for positive max_speed and steps, boltzmann_speed returns exactly
\* ceil(max_speed / delta) points, delta = max_speed / steps (so exactly
\* steps points when the steps divide the range evenly), the first x is 0,
\* every x is below max_speed and every density is non-negative.
C6_PointCount ==
    \A i \in 1..Len(curves) :
        LET c == curves[i]
        IN  (c.call.fn = "boltzmann_speed" /\ c.call.steps > 0
             /\ FSgn(c.call.maximum) > 0) =>
                /\ Len(c.x) = FCeil(FDiv(c.call.maximum, DeltaOf(c.call)))
                /\ ExactMultiple(c.call.maximum, DeltaOf(c.call), c.call.steps)
                      => Len(c.x) = c.call.steps
                /\ c.x[1] = FZero
                /\ \A j \in 1..Len(c.x) : FLess(c.x[j], c.call.maximum)
                /\ \A j \in 1..Len(c.y) : c.y[j] >= 0

LoopHeadLengths ==
    pc \in {"speed_loop", "energy_loop"} => Len(x) = Len(y)

C10_CurvePerTemperature ==
    /\ Len(curves) <= Len(temperature_list)
    /\ pc = "done" => Len(curves) = Len(temperature_list)
    /\ \A i \in 1..Len(curves) :
          LET c == curves[i]
          IN  /\ c.label = float(args.temperatures[i]).val
              /\ c.call.temperature = FAdd(float(args.temperatures[i]).val,
                                           Fl(27315, 100, 0))
              /\ c.call.steps = int(args.numsteps).val
              /\ IF args.energy
                 THEN /\ c.call.fn = "boltzmann_energy"
                      /\ c.call.maximum = float(args.maxenergy).val
                 ELSE /\ c.call.fn = "boltzmann_speed"
                      /\ c.call.maximum = float(args.maxspeed).val
                      /\ c.call.mass = molecular_mass

C10_Witness ==
    /\ pc = "done"
    /\ Len(curves) = 2
    /\ args.temperatures = << <<"1", "0", "0">>, <<"2", "0">> >>
    /\ FLess(curves[2].label, curves[1].label)

RECURSIVE SumOver(_, _)
\* the sum over the frequencies fl of 2 * cos(pi * f * xv / 3)
SumOver(fl, xv) ==
    IF fl = <<>> THEN 0 ELSE Cos2(Head(fl) * xv) + SumOver(Tail(fl), xv)

\* C8: calculate_sum_wave(x, frequency_list) returns one value per sample of
\* x whatever the number of frequencies, all zeros for an empty list, each
\* value the sum over the frequencies of that frequency's wave at the sample.
C8_SumWave ==
    wpc \in {"frame_plot", "returned"} =>
        /\ Len(ret) = Len(cx)
        /\ cfl = <<>> => \A i \in 1..Len(ret) : ret[i] = 0
        /\ \A i \in 1..Len(ret) : ret[i] = SumOver(cfl, cx[i])

C8_Witness ==
    /\ wpc = "returned"
    /\ Len(cfl) = 3
    /\ Len(cx) = 2
    /\ \E i \in 1..Len(ret) : ret[i] # 0

\* C9: for N frequencies plot_waves draws exactly N frames in order; frame n
\* is the sum wave of the first n frequencies, computed from a zero
\* accumulator, titled with n, over the same x grid and frequency list.
C9_Frames ==
    /\ Len(frames) <= Len(frequency_list)
    /\ wpc = "done" => Len(frames) = Len(frequency_list)
    /\ entry = "plot_waves" /\ wpc # "plot_waves" =>
          /\ x_grid = linspace(wargs.x_min, wargs.x_max, wargs.x_samples)
          /\ frequency_list = linspace(wargs.f_min, wargs.f_max, wargs.f_samples)
    /\ (wpc = "for_f" /\ fi = 1) => \A i \in 1..Len(acc) : acc[i] = 0
    /\ \A i \in 1..Len(frames) :
          /\ frames[i].title = i
          /\ frames[i].x = x_grid
          /\ Len(frames[i].y) = Len(x_grid)
          /\ \A j \in 1..Len(x_grid) :
                frames[i].y[j] = SumOver(SubSeq(frequency_list, 1, i), x_grid[j])

C9_Witness ==
    /\ wpc = "done"
    /\ Len(frames) = 3
    /\ frames[3].y # frames[2].y
    /\ \E j \in 1..Len(x_grid) : frames[2].y[j] # 0

\* The iteration cap never stops a loop whose step count is positive
CapNotReached ==
    (pc \in {"speed_loop", "energy_loop"} /\ call.steps > 0) => Len(x) < MaxIter

====
